---- MODULE Spec2Model ----
(***************************************************************************)
(* GPU picking of bevy_render (crates/bevy_render/src/picking/mod.rs):     *)
(* the per-camera PickingResources behind Arc<Mutex<Option<..>>>, the      *)
(* buffer layout arithmetic, the map/unmap protocol of the two readback    *)
(* buffers and the two queries Picking::get_entity and Picking::depth.     *)
(***************************************************************************)
EXTENDS Integers, Sequences, FiniteSets, TLC

(***************************************************************************)
(* Bounds of the model.                                                    *)
(***************************************************************************)
\* number of picking cameras
NumCameras == 2
\* number of render targets (windows, images) a camera can render to
NumTargets == 2
\* largest physical target width a camera takes
MaxWidth == 2
\* largest physical target height a camera takes
MaxHeight == 2
\* largest width and height PickingBufferSize::new is computed for on its own
MaxLayoutWidth == 65
MaxLayoutHeight == 3
\* largest upper 16-bit half of the entity indices the codec is run on
MaxIdHi == 8

Cameras == 1..NumCameras

(***************************************************************************)
(* Program constants.                                                      *)
(***************************************************************************)
\* PICKING_TEXTURE_FORMAT.describe().block_size of Rgba16Float: 4 channels of 2 bytes
PICKING_TEXTURE_FORMAT_block_size == 8
\* wgpu::COPY_BYTES_PER_ROW_ALIGNMENT
COPY_BYTES_PER_ROW_ALIGNMENT == 256
\* the array length [u8; 4] that f32::from_le_bytes takes
F32_BYTES == 4

(***************************************************************************)
(* Option<T> as a sequence of length 0 or 1, UVec2 as a record.            *)
(***************************************************************************)
None == <<>>
Some(v) == <<v>>
Unwrap(o) == o[1]

UVec2(x, y) == [x |-> x, y |-> y]

\* the values Camera::physical_target_size() takes in the model
TargetSizes ==
    {None} \cup {Some(UVec2(w, h)) : w \in 0..MaxWidth, h \in 0..MaxHeight}

\* the cursor coordinates a caller passes to a query: in the viewport, on its
\* right and upper edge, and one row beyond
Coordinates == {UVec2(x, y) : x \in 0..MaxWidth, y \in 0..(MaxHeight + 1)}

\* usize::saturating_sub
saturating_sub(a, b) == IF a >= b THEN a - b ELSE 0

(***************************************************************************)
(* PickingBufferSize                                                       *)
(***************************************************************************)
\* a layout whose rows are not padded
PickingBufferSize_new_unpadded(width, height) ==
    LET bytes_per_pixel == PICKING_TEXTURE_FORMAT_block_size
        unpadded_bytes_per_row == width * bytes_per_pixel
    IN  [texture_size |-> UVec2(width, height),
         padded_bytes_per_row |-> unpadded_bytes_per_row]

\* a layout whose padding lacks the outer % align
PickingBufferSize_new_no_mod(width, height) ==
    LET bytes_per_pixel == PICKING_TEXTURE_FORMAT_block_size
        unpadded_bytes_per_row == width * bytes_per_pixel
        align == COPY_BYTES_PER_ROW_ALIGNMENT
        padded_bytes_per_row_padding == align - (unpadded_bytes_per_row % align)
        padded_bytes_per_row == unpadded_bytes_per_row + padded_bytes_per_row_padding
    IN  [texture_size |-> UVec2(width, height),
         padded_bytes_per_row |-> padded_bytes_per_row]

PickingBufferSize_new(width, height) ==
    LET bytes_per_pixel == PICKING_TEXTURE_FORMAT_block_size
        unpadded_bytes_per_row == width * bytes_per_pixel
        align == COPY_BYTES_PER_ROW_ALIGNMENT
        padded_bytes_per_row_padding ==
            (align - (unpadded_bytes_per_row % align)) % align
        padded_bytes_per_row == unpadded_bytes_per_row + padded_bytes_per_row_padding
    IN  [texture_size |-> UVec2(width, height),
         padded_bytes_per_row |-> padded_bytes_per_row]

\* the bytes of the texels alone, without the padding of the rows
total_needed_bytes_unpadded(self) ==
    self.texture_size.y * self.texture_size.x * PICKING_TEXTURE_FORMAT_block_size

total_needed_bytes(self) == self.texture_size.y * self.padded_bytes_per_row

(***************************************************************************)
(* Contents of a readback buffer.  The buffers hold what the GPU copied    *)
(* from the picking texture and the depth texture: rows of texture_size.x  *)
(* texels of 8 bytes, each row padded to padded_bytes_per_row.  The scene  *)
(* is fixed: the texel in column col of row row shows the entity           *)
(* 300 * row + col, except the texel (0, 0), which shows the background.   *)
(***************************************************************************)
\* a u32 as its two 16-bit halves (the model checker's integers are 32-bit signed)
U32(hi, lo) == [hi |-> hi, lo |-> lo]

\* v + 1 on a u32, wrapping
U32Succ(v) ==
    IF v.lo = 65535 THEN U32((v.hi + 1) % 65536, 0) ELSE U32(v.hi, v.lo + 1)

\* v - 1 on a u32 that is not 0
U32Pred(v) ==
    IF v.lo > 0 THEN U32(v.hi, v.lo - 1) ELSE U32(v.hi - 1, 65535)

\* the virtual entity index (entity index + 1, 0 for no entity) drawn at a texel
SceneVirtualIndex(col, row) ==
    IF col = 0 /\ row = 0 THEN U32(0, 0) ELSE U32(0, 300 * row + col + 1)

\* the three channels picking.wgsl writes for a virtual entity index: its low
\* 8 bits, its middle 12 bits, its upper 12 bits
EncodeChannels(v) ==
    << v.lo % 256, (v.lo \div 256) + 256 * (v.hi % 16), v.hi \div 16 >>

RECURSIVE Pow2(_)
\* 2^k
Pow2(k) == IF k = 0 THEN 1 ELSE 2 * Pow2(k - 1)

RECURSIVE Log2(_)
\* the position of the highest set bit of n > 0
Log2(n) == IF n < 2 THEN 0 ELSE 1 + Log2(n \div 2)

\* a half::f16 that holds a non-negative integer: 0, or (1024 + m) * 2^(e - 10)
\* with the 10-bit mantissa m and the unbiased exponent e
F16(e, m) == [e |-> e, m |-> m]
F16Zero == F16(-1, 0)

\* how a GPU rounds a value that a 16-bit float cannot hold
Roundings == {"nearest_even", "toward_zero"}

\* the f16 an Rgba16Float texture stores for the channel value n
f16_from_integer(n, rounding) ==
    IF n = 0 THEN F16Zero
    ELSE
        LET e == Log2(n)
        IN  IF e <= 10
            THEN F16(e, n * Pow2(10 - e) - 1024)
            ELSE
                LET step == Pow2(e - 10)
                    q == (n - Pow2(e)) \div step
                    r == n % step
                    up == \/ 2 * r > step
                          \/ 2 * r = step /\ q % 2 = 1
                    m == IF rounding = "nearest_even" /\ up THEN q + 1 ELSE q
                IN  IF m = 1024 THEN F16(e + 1, 0) ELSE F16(e, m)

\* half::f16::from_le_bytes(..).to_f32() as u16
f16_to_u16(h) ==
    IF h.e < 0 THEN 0
    ELSE IF h.e >= 10 THEN (1024 + h.m) * Pow2(h.e - 10)
    ELSE (1024 + h.m) \div Pow2(10 - h.e)

\* the pixel the texture stores for the channels a fragment writes
StoreChannels(channels, rounding) ==
    [i \in 1..3 |-> f16_from_integer(channels[i], rounding)]

\* the channels stored in the 8-byte slot at byte offset start of a buffer
\* laid out as size; padding bytes are zero
PickBufferChannels(size, start) ==
    LET row == start \div size.padded_bytes_per_row
        col == (start % size.padded_bytes_per_row) \div PICKING_TEXTURE_FORMAT_block_size
    IN  IF col < size.texture_size.x
        THEN StoreChannels(EncodeChannels(SceneVirtualIndex(col, row)), "nearest_even")
        ELSE << F16Zero, F16Zero, F16Zero >>

RECURSIVE BitOr(_, _)
\* a | b on unsigned integers
BitOr(a, b) ==
    IF a = 0 THEN b
    ELSE IF b = 0 THEN a
    ELSE (IF a % 2 = 1 \/ b % 2 = 1 THEN 1 ELSE 0) + 2 * BitOr(a \div 2, b \div 2)

\* the three channels assembled with a shift of 16 for the upper one
virtual_entity_index_from_channels_shift_16(u16_lower_8, u16_mid_12, u16_upper_12) ==
    LET mid_shifted == U32((u16_mid_12 * 256) \div 65536, (u16_mid_12 * 256) % 65536)
        upper_shifted == U32(u16_upper_12 % 65536, 0)
    IN  U32(BitOr(mid_shifted.hi, upper_shifted.hi),
            BitOr(u16_lower_8, BitOr(mid_shifted.lo, upper_shifted.lo)))

\* u16_lower_8 as u32 | ((u16_mid_12 as u32) << 8) | ((u16_upper_12 as u32) << 20),
\* the shifts dropping the bits they move past bit 31
virtual_entity_index_from_channels(u16_lower_8, u16_mid_12, u16_upper_12) ==
    LET mid_shifted == U32((u16_mid_12 * 256) \div 65536, (u16_mid_12 * 256) % 65536)
        upper_shifted == U32((u16_upper_12 * 16) % 65536, 0)
    IN  U32(BitOr(mid_shifted.hi, upper_shifted.hi),
            BitOr(u16_lower_8, BitOr(mid_shifted.lo, upper_shifted.lo)))

\* the closure get_entity passes to coords_to_data, on the channels (f16) of
\* the viewed bytes
make_virtual_entity_index(bytes) ==
    virtual_entity_index_from_channels(f16_to_u16(bytes[1]), f16_to_u16(bytes[2]),
                                       f16_to_u16(bytes[3]))

(***************************************************************************)
(* coords_to_data: where in the mapped bytes a cursor coordinate is read.  *)
(* panic is "" when the slice &buffer_view[start..end] is taken.           *)
(***************************************************************************)
coords_to_data(coords, camera_size, picking_buffer_size, buffer_view_len) ==
    IF camera_size = None
    THEN [panic |-> "Camera passed should have a size",
          row |-> 0, start |-> 0, end |-> 0]
    ELSE
        LET x == coords.x
            y == saturating_sub(Unwrap(camera_size).y, coords.y)
            padded_width == picking_buffer_size.padded_bytes_per_row
            pixel_size == PICKING_TEXTURE_FORMAT_block_size
            start == (y * padded_width) + (x * pixel_size)
            end == start + pixel_size
        IN  [panic |-> IF end > buffer_view_len
                       THEN "range end index out of range for slice"
                       ELSE "",
             row |-> y, start |-> start, end |-> end]

(***************************************************************************)
(* State.                                                                  *)
(***************************************************************************)
VARIABLES
    picking,           \* picking[c]: the allocation the Arc of camera c's Picking points to
    render_picking,    \* render_picking[c]: the Picking extracted for camera c, if any
    target,            \* target[c]: Camera::target, the render target camera c renders to
    msaa,              \* Msaa::samples, the sample count of the antialiasing setting
    target_info,       \* target_info[t]: the physical size of render target t, if it has one
    extracted,         \* extracted[c]: ExtractedCamera::physical_target_size
    resources,         \* resources[a]: the Option<PickingResources> in the mutex of
                       \* allocation a (camera c's is allocation c)
    mutex,             \* mutex[a]: who holds the mutex of allocation a
    picking_textures,  \* picking_textures[c]: the PickingTextures inserted this frame
    stage,             \* the system the frame is in
    todo,              \* the cameras the running system has still to visit
    requested,         \* the cameras whose buffers this map_buffers run asked to map
    query,             \* the query that holds a mutex and has not yet read
    last,              \* what the last step did to a buffer or returned to a caller
    panicked           \* the panic message once a thread has panicked, else ""

vars == << picking, render_picking, target, msaa, target_info, extracted, resources, mutex, picking_textures, stage, todo,
           requested, query, last, panicked >>

\* the allocations an Arc<Mutex<Option<PickingResources>>> can point to: one
\* made by Picking::default() for every camera, and as many again
Allocations == 1..(2 * NumCameras)

\* Picking::default() of camera c: Arc::new of a mutex that holds None
Picking_default(c) == c

\* a clone that allocates a mutex of its own
Arc_clone_deep(self) == self + NumCameras

\* Arc::clone: another pointer to the same allocation
Arc_clone(self) == self

\* ExtractComponent for Picking: Some(item.clone())
extract_component(item) == Some(Arc_clone(item))

\* the render targets, and Camera::target of every camera
Targets == 1..NumTargets
camera_target(c) == target[c]

\* the render targets some camera renders to
UsedTargets == {camera_target(c) : c \in Cameras}

\* the values of Msaa::samples: antialiasing off, 4 samples
MsaaSamples == {1, 4}

\* Camera::physical_target_size()
physical_target_size(c) == target_info[camera_target(c)]

\* last when the step called nothing on a buffer and returned nothing
NoCall == [op |-> "none"]

\* the camera a system's loop visits next
NextCamera == CHOOSE c \in todo : \A d \in todo : c <= d

\* the frame's thread holds some camera's mutex
FrameHolds == \E a \in Allocations : mutex[a] = "frame"

\* Picking::default() for every camera, no frame run yet; the cameras render
\* to one window
Init ==
    /\ picking = [c \in Cameras |-> Picking_default(c)]
    /\ render_picking = [c \in Cameras |-> None]
    /\ target = [c \in Cameras |-> 1]
    /\ msaa \in MsaaSamples
    /\ target_info \in [Targets -> TargetSizes]
    /\ \A t \in Targets \ UsedTargets : target_info[t] = None
    /\ extracted = [c \in Cameras |-> None]
    /\ resources = [a \in Allocations |-> None]
    /\ mutex = [a \in Allocations |-> "unlocked"]
    /\ picking_textures = [c \in Cameras |-> None]
    /\ stage = "extract"
    /\ todo = {}
    /\ requested = {}
    /\ query = None
    /\ last = NoCall
    /\ panicked = ""

(***************************************************************************)
(* wgpu::Buffer: BufferSlice::map_async, Buffer::unmap and the device's    *)
(* poll act on the map state of a buffer, one of "Unmapped",               *)
(* "MapRequested" and "Mapped".                                            *)
(***************************************************************************)
\* render_device.create_buffer(..) with mapped_at_creation: false; epoch tells
\* the new buffer from the one it replaces
make_buffer(needed_buffer_size, epoch) ==
    [size |-> needed_buffer_size, state |-> "Unmapped", epoch |-> epoch]

\* the buffer after slice(..).map_async(MapMode::Read, ..)
map_async(buffer) ==
    IF buffer.state = "Unmapped"
    THEN [buffer EXCEPT !.state = "MapRequested"]
    ELSE buffer

\* the result map_async hands to its callback
map_async_result(buffer) ==
    IF buffer.state = "Unmapped" THEN "Ok" ELSE "Err"

\* the Display of wgpu::BufferAsyncError, the only error a map_async callback
\* is handed, whatever made the map fail
BufferAsyncError == "Error occurred when trying to async map a buffer"

\* the callback map_buffers gives to map_async: if let Err(e) = result
\* { panic!("{e}") }; the panic message or ""
map_callback(result) ==
    IF result = "Err" THEN BufferAsyncError ELSE ""

\* the buffer after unmap()
unmap(buffer) == [buffer EXCEPT !.state = "Unmapped"]

\* a poll that does not wait for the pending maps (Maintain::Poll)
poll_no_wait(buffer) == buffer

\* the buffer after render_device.poll(Maintain::Wait)
poll_wait(buffer) ==
    IF buffer.state = "MapRequested"
    THEN [buffer EXCEPT !.state = "Mapped"]
    ELSE buffer

(***************************************************************************)
(* The queries.  An outcome tells what the call did: panic is the panic    *)
(* message or "", read tells whether bytes of the mapped range were        *)
(* viewed, value is the Option returned (for depth, Some(f32)).            *)
(***************************************************************************)
Outcome(panic, read, value, data) ==
    [panic |-> panic, read |-> read, value |-> value,
     row |-> data.row, start |-> data.start, end |-> data.end]

NoData == [row |-> 0, start |-> 0, end |-> 0]

\* the depth drawn at a texel
SceneDepth(col, row) == 1

\* Entity::from_raw(v): the entity with index v
Entity_from_raw(v) == v

\* an end of get_entity that forgets the offset of the virtual entity index
entity_from_virtual_index_no_offset(virtual_entity_index) ==
    IF virtual_entity_index = U32(0, 0)
    THEN None
    ELSE Some(Entity_from_raw(virtual_entity_index))

\* the end of get_entity: virtual entity index 0 is no entity, v is the
\* entity of index v - 1
entity_from_virtual_index(virtual_entity_index) ==
    IF virtual_entity_index = U32(0, 0)
    THEN None
    ELSE Some(Entity_from_raw(U32Pred(virtual_entity_index)))

\* Picking::get_entity past its try_lock, on the guarded Option<PickingResources>
get_entity(guard, camera_size, coordinates) ==
    IF guard = None
    THEN \* Picking resources not yet prepared.
         Outcome("", FALSE, None, NoData)
    ELSE
        LET res == Unwrap(guard)
            data == coords_to_data(coordinates, camera_size, res.size,
                                   res.pick_buffer.size)
        IN  IF res.pick_buffer.state # "Mapped"
            THEN Outcome("get_mapped_range: buffer is not mapped", FALSE, None, NoData)
            ELSE IF data.panic # ""
            THEN Outcome(data.panic, FALSE, None, data)
            ELSE IF data.end - data.start # 4 * 2
            THEN Outcome("assertion failed: bytes.len() == 4 * 2", TRUE, None, data)
            ELSE
                LET virtual_entity_index ==
                        make_virtual_entity_index(PickBufferChannels(res.size, data.start))
                IN  Outcome("", TRUE, entity_from_virtual_index(virtual_entity_index), data)

\* Picking::depth past its try_lock, on the guarded Option<PickingResources>
depth(guard, camera_size, coordinates) ==
    IF guard = None
    THEN Outcome("Resources should have been prepared", FALSE, None, NoData)
    ELSE
        LET res == Unwrap(guard)
            data == coords_to_data(coordinates, camera_size, res.size,
                                   res.depth_buffer.size)
        IN  IF res.depth_buffer.state # "Mapped"
            THEN Outcome("get_mapped_range: buffer is not mapped", FALSE, None, NoData)
            ELSE IF data.panic # ""
            THEN Outcome(data.panic, FALSE, None, data)
            ELSE IF data.end - data.start # F32_BYTES
            THEN Outcome("Should be able to make f32 (depth) out of 4 bytes",
                         TRUE, None, data)
            ELSE Outcome("", TRUE,
                         Some(SceneDepth((data.start % res.size.padded_bytes_per_row)
                                             \div F32_BYTES,
                                         data.row)),
                         data)

QueryKinds == {"get_entity", "depth"}

\* the buffer a query slices: resources.pick_buffer.slice(..) in get_entity,
\* resources.depth_buffer.slice(..) in depth
QueryBuffer(kind, guard) ==
    IF guard = None THEN None
    ELSE IF kind = "get_entity" THEN Some(Unwrap(guard).pick_buffer)
    ELSE Some(Unwrap(guard).depth_buffer)

\* a caller enters get_entity or depth on camera c's Picking:
\* self.try_lock().expect(..)
QueryLock(c) ==
    /\ panicked = ""
    /\ query = None
    /\ IF mutex[picking[c]] # "unlocked"
       THEN /\ panicked' = "Should have been unlocked"
            /\ last' = [op |-> "try_lock", by |-> "query", camera |-> c,
                        held |-> mutex[picking[c]]]
            /\ UNCHANGED << mutex, query >>
       ELSE /\ mutex' = [mutex EXCEPT ![picking[c]] = "query"]
            /\ query' = Some(c)
            /\ last' = NoCall
            /\ UNCHANGED panicked
    /\ UNCHANGED << picking, render_picking, target, msaa,
                    target_info, extracted, resources, picking_textures, stage, todo,
                    requested >>

\* a query that unmaps the buffers of its camera when it has read
QueryRead_unmaps(kind, coordinates) ==
    /\ panicked = ""
    /\ query # None
    /\ LET c == Unwrap(query)
           self == picking[c]
           out == IF kind = "get_entity"
                  THEN get_entity(resources[self], physical_target_size(c), coordinates)
                  ELSE depth(resources[self], physical_target_size(c), coordinates)
       IN  /\ last' = [op |-> kind, camera |-> c, coordinates |-> coordinates,
                       buffer |-> QueryBuffer(kind, resources[self]), outcome |-> out]
           /\ panicked' = out.panic
           /\ mutex' = [mutex EXCEPT ![self] = "unlocked"]
    /\ query' = None
    /\ resources' = [resources EXCEPT ![picking[Unwrap(query)]] =
                         IF @ = None THEN None
                         ELSE Some([Unwrap(@) EXCEPT !.pick_buffer = unmap(@),
                                                     !.depth_buffer = unmap(@)])]
    /\ UNCHANGED << picking, render_picking, target, msaa,
                    target_info, extracted, picking_textures, stage, todo,
                    requested >>

\* the rest of the call, which is get_entity or depth at coordinates; the
\* guard is dropped on return
QueryRead(kind, coordinates) ==
    /\ panicked = ""
    /\ query # None
    /\ LET c == Unwrap(query)
           self == picking[c]
           out == IF kind = "get_entity"
                  THEN get_entity(resources[self], physical_target_size(c), coordinates)
                  ELSE depth(resources[self], physical_target_size(c), coordinates)
       IN  /\ last' = [op |-> kind, camera |-> c, coordinates |-> coordinates,
                       buffer |-> QueryBuffer(kind, resources[self]), outcome |-> out]
           /\ panicked' = out.panic
           /\ mutex' = [mutex EXCEPT ![self] = "unlocked"]
    /\ query' = None
    /\ UNCHANGED << picking, render_picking, target, msaa,
                    target_info, extracted, resources, picking_textures, stage, todo,
                    requested >>

\* the window or image a camera renders to changes size, or goes away
Resize(t, size) ==
    /\ panicked = ""
    /\ t \in UsedTargets
    /\ size # target_info[t]
    /\ target_info' = [target_info EXCEPT ![t] = size]
    /\ last' = NoCall
    /\ UNCHANGED << picking, render_picking, target, msaa,
                    extracted, resources, mutex, picking_textures, stage, todo,
                    requested, query, panicked >>

(***************************************************************************)
(* The frame: extract, prepare_picking_targets, copy_to_buffer for every   *)
(* prepared camera, map_buffers, the update in which the mapped bytes are  *)
(* meant to be queried, unmap_buffers.  A system visits the cameras in     *)
(* order; visiting a camera is two steps, taking its mutex and the rest.   *)
(***************************************************************************)
\* map_buffers and unmap_buffers pass over a camera without a size or with
\* a zero width or height
SkipsCamera(c) ==
    \/ physical_target_size(c) = None
    \/ Unwrap(physical_target_size(c)).x = 0
    \/ Unwrap(physical_target_size(c)).y = 0

\* the order of the systems in a frame
NextStage(s) ==
    CASE s = "extract" -> "prepare"
      [] s = "prepare" -> "copy"
      [] s = "copy" -> "map"
      [] s = "map" -> "update"
      [] s = "update" -> "unmap"
      [] s = "unmap" -> "extract"

\* the cameras copy_to_buffer is called for: those given PickingTextures
CopyCameras == {c \in Cameras : picking_textures[c] # None}

\* an extraction that hands over the zero-sized cameras too
ExtractAll ==
    /\ panicked = ""
    /\ stage = "extract"
    /\ extracted' = [c \in Cameras |-> physical_target_size(c)]
    /\ render_picking' = [c \in Cameras |-> extract_component(picking[c])]
    /\ stage' = NextStage(stage)
    /\ todo' = Cameras
    /\ last' = NoCall
    /\ UNCHANGED << picking, target, msaa,
                    target_info, resources, mutex, picking_textures, requested, query,
                    panicked >>

\* the render world receives ExtractedCamera for every camera that has a
\* size of nonzero width and height, and the Picking of every camera by
\* ExtractComponent
Extract ==
    /\ panicked = ""
    /\ stage = "extract"
    /\ extracted' = [c \in Cameras |->
                         IF SkipsCamera(c) THEN None ELSE physical_target_size(c)]
    /\ render_picking' = [c \in Cameras |-> extract_component(picking[c])]
    /\ stage' = NextStage(stage)
    /\ todo' = Cameras
    /\ last' = NoCall
    /\ UNCHANGED << picking, target, msaa,
                    target_info, resources, mutex, picking_textures, requested, query,
                    panicked >>

\* a system's loop over the cameras has ended; after the render graph has
\* run, the render world's entities are cleared
SystemDone ==
    /\ panicked = ""
    /\ stage \in {"prepare", "copy", "unmap"}
    /\ todo = {}
    /\ stage' = NextStage(stage)
    /\ todo' = CASE stage = "prepare" -> CopyCameras
                 [] stage = "copy" -> Cameras
                 [] stage = "unmap" -> {}
    /\ IF stage = "copy"
       THEN /\ extracted' = [c \in Cameras |-> None]
            /\ render_picking' = [c \in Cameras |-> None]
            /\ picking_textures' = [c \in Cameras |-> None]
       ELSE UNCHANGED << extracted, render_picking, picking_textures >>
    /\ last' = NoCall
    /\ UNCHANGED << picking, target, msaa,
                    target_info, resources, mutex, requested, query, panicked >>

\* a thread of the frame that takes the mutex whoever holds it
TryLock_unchecked(c, self, skip, message) ==
    IF skip
    THEN /\ todo' = todo \ {c}
         /\ last' = NoCall
         /\ UNCHANGED << mutex, panicked >>
    ELSE /\ mutex' = [mutex EXCEPT ![self] = "frame"]
         /\ last' = NoCall
         /\ UNCHANGED << todo, panicked >>

\* the frame's thread either skips camera c, or panics on the held mutex of
\* the camera's Picking (self), or takes it: try_lock().expect(..) and
\* try_lock().unwrap()
TryLock(c, self, skip, message) ==
    IF skip
    THEN /\ todo' = todo \ {c}
         /\ last' = NoCall
         /\ UNCHANGED << mutex, panicked >>
    ELSE IF mutex[self] # "unlocked"
    THEN /\ panicked' = message
         /\ last' = [op |-> "try_lock", by |-> stage, camera |-> c, held |-> mutex[self]]
         /\ UNCHANGED << mutex, todo >>
    ELSE /\ mutex' = [mutex EXCEPT ![self] = "frame"]
         /\ last' = NoCall
         /\ UNCHANGED << todo, panicked >>

\* a prepare that makes new buffers on every call
prepare_resources_always(guard, target_size) ==
    LET picking_buffer_dimensions == PickingBufferSize_new(target_size.x, target_size.y)
        needed_buffer_size == total_needed_bytes(picking_buffer_dimensions)
        epoch == IF guard = None THEN 0 ELSE 1 - Unwrap(guard).pick_buffer.epoch
    IN  Some([pick_buffer |-> make_buffer(needed_buffer_size, epoch),
              depth_buffer |-> make_buffer(needed_buffer_size, epoch),
              size |-> picking_buffer_dimensions])

\* a prepare that, on a changed layout, replaces pick_buffer and size but
\* keeps the old depth_buffer
prepare_resources_pick_only(guard, target_size) ==
    LET picking_buffer_dimensions == PickingBufferSize_new(target_size.x, target_size.y)
        needed_buffer_size == total_needed_bytes(picking_buffer_dimensions)
    IN  IF guard # None
        THEN LET pr == Unwrap(guard)
             IN  IF \/ pr.pick_buffer.size # needed_buffer_size
                    \/ pr.depth_buffer.size # needed_buffer_size
                    \/ pr.size.texture_size # target_size
                 THEN Some([pick_buffer |->
                                make_buffer(needed_buffer_size, 1 - pr.pick_buffer.epoch),
                            depth_buffer |-> pr.depth_buffer,
                            size |-> picking_buffer_dimensions])
                 ELSE guard
        ELSE Some([pick_buffer |-> make_buffer(needed_buffer_size, 0),
                   depth_buffer |-> make_buffer(needed_buffer_size, 0),
                   size |-> picking_buffer_dimensions])

\* a prepare that, on a changed layout, replaces the buffers but keeps the
\* stored size
prepare_resources_stale_size(guard, target_size) ==
    LET picking_buffer_dimensions == PickingBufferSize_new(target_size.x, target_size.y)
        needed_buffer_size == total_needed_bytes(picking_buffer_dimensions)
    IN  IF guard # None
        THEN LET pr == Unwrap(guard)
             IN  IF \/ pr.pick_buffer.size # needed_buffer_size
                    \/ pr.depth_buffer.size # needed_buffer_size
                    \/ pr.size.texture_size # target_size
                 THEN Some([pick_buffer |->
                                make_buffer(needed_buffer_size, 1 - pr.pick_buffer.epoch),
                            depth_buffer |->
                                make_buffer(needed_buffer_size, 1 - pr.depth_buffer.epoch),
                            size |-> pr.size])
                 ELSE guard
        ELSE Some([pick_buffer |-> make_buffer(needed_buffer_size, 0),
                   depth_buffer |-> make_buffer(needed_buffer_size, 0),
                   size |-> picking_buffer_dimensions])

\* the Option<PickingResources> after prepare_picking_targets' match on it
prepare_resources(guard, target_size) ==
    LET size == target_size
        picking_buffer_dimensions == PickingBufferSize_new(size.x, size.y)
        needed_buffer_size == total_needed_bytes(picking_buffer_dimensions)
    IN  IF guard # None
        THEN LET pr == Unwrap(guard)
             IN  IF \/ pr.pick_buffer.size # needed_buffer_size
                    \/ pr.depth_buffer.size # needed_buffer_size
                    \/ pr.size.texture_size # target_size
                 THEN Some([pick_buffer |->
                                make_buffer(needed_buffer_size, 1 - pr.pick_buffer.epoch),
                            depth_buffer |->
                                make_buffer(needed_buffer_size, 1 - pr.depth_buffer.epoch),
                            size |-> PickingBufferSize_new(size.x, size.y)])
                 ELSE guard
        ELSE Some([pick_buffer |-> make_buffer(needed_buffer_size, 0),
                   depth_buffer |-> make_buffer(needed_buffer_size, 0),
                   size |-> PickingBufferSize_new(size.x, size.y)])

\* texture_cache.get(&render_device, descriptor): a CachedTexture of the
\* descriptor; id tells the texture of one get from that of another get of
\* the same descriptor in the frame
texture_cache_get(label, size, sample_count, usage, id) ==
    [label |-> label, size |-> size, sample_count |-> sample_count,
     usage |-> usage, id |-> id]

\* the PickingTextures the closure of or_insert_with makes for a target of
\* this size
make_picking_textures(size, samples, id) ==
    [main |-> texture_cache_get("main_picking_texture", size, 1,
                                {"RENDER_ATTACHMENT", "COPY_SRC"}, id),
     sampled |-> IF samples > 1
                 THEN Some(texture_cache_get("main_picking_texture_sampled", size,
                                             samples, {"RENDER_ATTACHMENT"}, id))
                 ELSE None]

\* a map of the run that never holds an entry
textures_entry_missing(t) == None

\* textures.entry(t) of the HashMap of the running prepare_picking_targets:
\* the PickingTextures made for target t when an earlier camera of the run
\* was visited
textures_entry(t) ==
    IF \E d \in Cameras : picking_textures[d] # None /\ camera_target(d) = t
    THEN picking_textures[CHOOSE d \in Cameras :
                              picking_textures[d] # None /\ camera_target(d) = t]
    ELSE None

\* an attachment that renders into main though a sampled texture exists
get_color_attachment_unsampled(self) ==
    [view |-> self.main, resolve_target |-> None]

\* PickingTextures::get_color_attachment
get_color_attachment(self) ==
    IF self.sampled # None
    THEN [view |-> Unwrap(self.sampled), resolve_target |-> Some(self.main)]
    ELSE [view |-> self.main, resolve_target |-> None]

\* prepare_picking_targets reaches camera c
PrepareLock ==
    /\ panicked = ""
    /\ stage = "prepare"
    /\ todo # {}
    /\ ~FrameHolds
    /\ TryLock(NextCamera, Unwrap(render_picking[NextCamera]),
               extracted[NextCamera] = None, "TODO: Are we ok to lock here?")
    /\ UNCHANGED << picking, render_picking, target, msaa,
                    target_info, extracted, resources, picking_textures, stage,
                    requested, query >>

\* prepare_picking_targets, camera c, from the match to the insert
PrepareBody ==
    /\ panicked = ""
    /\ stage = "prepare"
    /\ FrameHolds
    /\ LET c == NextCamera
           self == Unwrap(render_picking[c])
           target_size == Unwrap(extracted[c])
           new == prepare_resources(resources[self], target_size)
           entry == textures_entry(camera_target(c))
           textures == IF entry = None
                       THEN make_picking_textures(target_size, msaa, c)
                       ELSE Unwrap(entry)
       IN  /\ resources' = [resources EXCEPT ![self] = new]
           /\ picking_textures' = [picking_textures EXCEPT ![c] = Some(textures)]
           /\ mutex' = [mutex EXCEPT ![self] = "unlocked"]
           /\ todo' = todo \ {c}
           /\ last' = [op |-> "prepare_picking_targets", camera |-> c,
                       before |-> resources[self], target_size |-> target_size,
                       inserted |-> entry = None]
    /\ UNCHANGED << picking, render_picking, target, msaa,
                    target_info, extracted, stage, requested, query, panicked >>

\* a copy_texture_to_buffer command into the buffer, laid out by size
CopyCommand(name, buffer, size) ==
    [buffer |-> name, state |-> buffer.state, buffer_size |-> buffer.size,
     bytes_per_row |-> size.padded_bytes_per_row,
     width |-> size.texture_size.x, height |-> size.texture_size.y]

\* a copy_to_buffer that leaves out the copy of the depth
copy_to_buffer_no_depth(guard, has_depth) ==
    IF guard = None
    THEN [panic |-> "Buffer should have been prepared", commands |-> << >>]
    ELSE [panic |-> "",
          commands |-> << CopyCommand("pick_buffer", Unwrap(guard).pick_buffer,
                                      Unwrap(guard).size) >>]

\* copy_to_buffer past its try_lock: the panic message or "", and the
\* commands it records in the encoder
copy_to_buffer(guard, has_depth) ==
    IF guard = None
    THEN [panic |-> "Buffer should have been prepared", commands |-> << >>]
    ELSE
        LET picking_resources == Unwrap(guard)
            size == picking_resources.size
        IN  IF size.padded_bytes_per_row = 0
            THEN \* NonZeroU32::new(0).unwrap()
                 [panic |-> "called Option::unwrap() on a None value",
                  commands |-> << >>]
            ELSE [panic |-> "",
                  commands |->
                      << CopyCommand("pick_buffer", picking_resources.pick_buffer, size) >>
                      \o (IF has_depth
                          THEN << CopyCommand("depth_buffer",
                                              picking_resources.depth_buffer, size) >>
                          ELSE << >>)]

\* the picking node reaches camera c: copy_to_buffer's try_lock
CopyLock ==
    /\ panicked = ""
    /\ stage = "copy"
    /\ todo # {}
    /\ ~FrameHolds
    /\ TryLock(NextCamera, Unwrap(render_picking[NextCamera]), FALSE,
               "TODO: Can we lock here?")
    /\ UNCHANGED << picking, render_picking, target, msaa,
                    target_info, extracted, resources, picking_textures, stage,
                    requested, query >>

\* the rest of copy_to_buffer; has_depth: the camera has a ViewDepthTexture
CopyBody(has_depth) ==
    /\ panicked = ""
    /\ stage = "copy"
    /\ FrameHolds
    /\ LET c == NextCamera
           self == Unwrap(render_picking[c])
           out == copy_to_buffer(resources[self], has_depth)
       IN  /\ last' = [op |-> "copy_to_buffer", camera |-> c, has_depth |-> has_depth,
                       commands |-> out.commands]
           /\ panicked' = out.panic
           /\ mutex' = [mutex EXCEPT ![self] = "unlocked"]
           /\ todo' = todo \ {c}
    /\ UNCHANGED << picking, render_picking, target, msaa,
                    target_info, extracted, resources, picking_textures, stage,
                    requested, query >>

\* map_buffers reaches camera c
MapLock ==
    /\ panicked = ""
    /\ stage = "map"
    /\ todo # {}
    /\ ~FrameHolds
    /\ TryLock(NextCamera, picking[NextCamera], SkipsCamera(NextCamera),
               "called Result::unwrap() on an Err value")
    /\ UNCHANGED << picking, render_picking, target, msaa,
                    target_info, extracted, resources, picking_textures, stage,
                    requested, query >>

\* the PickingResources after map_buffers asked to map both buffers
map_resources(picking_resources) ==
    [picking_resources EXCEPT !.pick_buffer = map_async(@),
                              !.depth_buffer = map_async(@)]

\* map_buffers, camera c, past the try_lock: a callback that is handed an
\* Err panics
MapBody ==
    /\ panicked = ""
    /\ stage = "map"
    /\ FrameHolds
    /\ LET c == NextCamera
           self == picking[c]
       IN  /\ IF resources[self] = None
              THEN /\ last' = NoCall
                   /\ UNCHANGED << resources, requested, panicked >>
              ELSE LET picking_resources == Unwrap(resources[self])
                   IN  /\ resources' =
                              [resources EXCEPT ![self] = Some(map_resources(picking_resources))]
                       /\ requested' = requested \cup {c}
                       /\ last' = [op |-> "map_async", camera |-> c,
                                   pick_buffer |-> picking_resources.pick_buffer.state,
                                   depth_buffer |-> picking_resources.depth_buffer.state]
                       /\ panicked' =
                              IF map_async_result(picking_resources.pick_buffer) = "Err"
                              THEN map_callback(map_async_result(picking_resources.pick_buffer))
                              ELSE map_callback(map_async_result(picking_resources.depth_buffer))
           /\ mutex' = [mutex EXCEPT ![self] = "unlocked"]
           /\ todo' = todo \ {c}
    /\ UNCHANGED << picking, render_picking, target, msaa,
                    target_info, extracted, picking_textures, stage, query >>

\* every PickingResources after render_device.poll(Maintain::Wait)
poll(all) ==
    [a \in DOMAIN all |->
        IF all[a] = None
        THEN None
        ELSE Some([Unwrap(all[a]) EXCEPT !.pick_buffer = poll_wait(@),
                                         !.depth_buffer = poll_wait(@)])]

\* some buffer waits for its map to complete
MapPending(all) ==
    \E a \in DOMAIN all :
        /\ all[a] # None
        /\ \/ Unwrap(all[a]).pick_buffer.state = "MapRequested"
           \/ Unwrap(all[a]).depth_buffer.state = "MapRequested"

\* map_buffers after its loop: the blocking poll, then it returns.  If the
\* device fails the pending maps (device_lost), the poll hands Err to their
\* callbacks.
MapPoll(device_lost) ==
    /\ panicked = ""
    /\ stage = "map"
    /\ todo = {}
    /\ IF device_lost /\ MapPending(resources)
       THEN /\ panicked' = map_callback("Err")
            /\ last' = [op |-> "poll", error |-> "device lost"]
            /\ UNCHANGED << resources, stage, requested >>
       ELSE /\ resources' = poll(resources)
            /\ stage' = NextStage(stage)
            /\ last' = [op |-> "map_buffers", requested |-> requested]
            /\ requested' = {}
            /\ UNCHANGED panicked
    /\ UNCHANGED << picking, render_picking, target, msaa,
                    target_info, extracted, mutex, picking_textures, todo, query >>

\* the update ends and unmap_buffers starts
UpdateDone ==
    /\ panicked = ""
    /\ stage = "update"
    /\ stage' = NextStage(stage)
    /\ todo' = Cameras
    /\ last' = NoCall
    /\ UNCHANGED << picking, render_picking, target, msaa,
                    target_info, extracted, resources, mutex, picking_textures,
                    requested, query, panicked >>

\* unmap_buffers reaches camera c
UnmapLock ==
    /\ panicked = ""
    /\ stage = "unmap"
    /\ todo # {}
    /\ ~FrameHolds
    /\ TryLock(NextCamera, picking[NextCamera], SkipsCamera(NextCamera),
               "called Result::unwrap() on an Err value")
    /\ UNCHANGED << picking, render_picking, target, msaa,
                    target_info, extracted, resources, picking_textures, stage,
                    requested, query >>

\* the PickingResources after unmap_buffers unmapped both buffers
unmap_resources(picking_resources) ==
    [picking_resources EXCEPT !.pick_buffer = unmap(@),
                              !.depth_buffer = unmap(@)]

\* what wgpu reports for unmap(): nothing for a mapped buffer, a validation
\* error for one that is not mapped, and the pending map's callback is handed
\* an Err
unmap_error(buffer) ==
    CASE buffer.state = "Mapped" -> ""
      [] buffer.state = "Unmapped" -> "validation"
      [] buffer.state = "MapRequested" -> "callback"

\* unmap_buffers, camera c, past the try_lock.  A validation error goes to
\* the device's uncaptured-error handler, which panics unless the application
\* replaced it (handler_panics).
UnmapBody(handler_panics) ==
    /\ panicked = ""
    /\ stage = "unmap"
    /\ FrameHolds
    /\ LET c == NextCamera
           self == picking[c]
       IN  /\ IF resources[self] = None
              THEN /\ last' = NoCall
                   /\ UNCHANGED << resources, panicked >>
              ELSE LET picking_resources == Unwrap(resources[self])
                       errors == {unmap_error(picking_resources.pick_buffer),
                                  unmap_error(picking_resources.depth_buffer)}
                   IN  /\ resources' =
                              [resources EXCEPT ![self] = Some(unmap_resources(picking_resources))]
                       /\ last' = [op |-> "unmap", camera |-> c,
                                   pick_buffer |-> picking_resources.pick_buffer.state,
                                   depth_buffer |-> picking_resources.depth_buffer.state]
                       /\ panicked' =
                              IF "callback" \in errors
                              THEN map_callback("Err")
                              ELSE IF "validation" \in errors /\ handler_panics
                              THEN "wgpu error: buffer is not mapped"
                              ELSE ""
           /\ mutex' = [mutex EXCEPT ![self] = "unlocked"]
           /\ todo' = todo \ {c}
    /\ UNCHANGED << picking, render_picking, target, msaa,
                    target_info, extracted, picking_textures, stage, requested, query >>

Next ==
    \/ Extract
    \/ PrepareLock
    \/ PrepareBody
    \/ SystemDone
    \/ CopyLock
    \/ \E has_depth \in BOOLEAN : CopyBody(has_depth)
    \/ MapLock
    \/ MapBody
    \/ \E device_lost \in BOOLEAN : MapPoll(device_lost)
    \/ UpdateDone
    \/ UnmapLock
    \/ \E handler_panics \in BOOLEAN : UnmapBody(handler_panics)
    \/ \E c \in Cameras : QueryLock(c)
    \/ \E kind \in QueryKinds, coordinates \in Coordinates : QueryRead(kind, coordinates)
    \/ \E t \in Targets, size \in TargetSizes : Resize(t, size)

Spec == Init /\ [][Next]_vars

(***************************************************************************)
(* Properties.                                                             *)
(***************************************************************************)
\* the last step returned from (or panicked in) get_entity or depth
Queried == last.op \in QueryKinds

\* the query of the last step got as far as computing the byte range
OffsetComputed == Queried /\ last.outcome.end > 0

\* the layout of the resources the last step acted on
LastSize == Unwrap(resources[last.camera]).size

\* the coordinates of the last query lie in the camera's viewport
InViewport ==
    /\ physical_target_size(last.camera) # None
    /\ last.coordinates.x < Unwrap(physical_target_size(last.camera)).x
    /\ last.coordinates.y < Unwrap(physical_target_size(last.camera)).y

\* the camera of the last query has resources whose layout is that of its
\* viewport, of nonzero width and height
LayoutIsViewport ==
    /\ resources[last.camera] # None
    /\ physical_target_size(last.camera) = Some(LastSize.texture_size)
    /\ LastSize.texture_size.x > 0
    /\ LastSize.texture_size.y > 0

\* C1: for an in-viewport pixel and the layout PickingBufferSize::new makes
\* for the viewport, the byte range coords_to_data computes lies inside
\* [0, total_needed_bytes).
C1_ByteRangeInBuffer ==
    (OffsetComputed /\ LayoutIsViewport /\ InViewport)
        => /\ 0 <= last.outcome.start
           /\ last.outcome.end <= total_needed_bytes(LastSize)

\* C2: a query at pixel (x, y) of a viewport of height H, 0 <= y < H, reads
\* buffer row H - 1 - y.
C2_FlipReadsRow ==
    (OffsetComputed /\ LayoutIsViewport /\ InViewport)
        => last.outcome.row
               = Unwrap(physical_target_size(last.camera)).y - 1 - last.coordinates.y

\* C3: a query with a pixel outside the viewport (x >= width or y >= height)
\* is rejected: it views no bytes of the buffer and returns no value.
C3_OutOfBoundsRejected ==
    (Queried /\ physical_target_size(last.camera) # None /\ ~InViewport)
        => /\ ~last.outcome.read
           /\ last.outcome.value = None

\* the identifier buffer of the last step's camera is missing or not mapped
PickNotReady ==
    \/ resources[last.camera] = None
    \/ Unwrap(resources[last.camera]).pick_buffer.state # "Mapped"

\* the depth buffer of the last step's camera is missing or not mapped
DepthNotReady ==
    \/ resources[last.camera] = None
    \/ Unwrap(resources[last.camera]).depth_buffer.state # "Mapped"

\* C4: get_entity, called during the update, returns None, without a panic,
\* whenever the resources do not exist or the identifier buffer (of a layout
\* of nonzero width and height) is not Mapped, and views bytes only of a
\* Mapped buffer.
C4_GetEntityNotReadyIsNone ==
    (last.op = "get_entity" /\ stage = "update" /\ PickNotReady
        /\ (resources[last.camera] # None
                => LastSize.texture_size.x > 0 /\ LastSize.texture_size.y > 0))
        => /\ last.outcome.panic = ""
           /\ last.outcome.value = None
           /\ ~last.outcome.read

\* C5: depth reports not-ready without a panic when the resources do not
\* exist or the depth buffer is not Mapped, as get_entity does.
C5_DepthNotReadyNoPanic ==
    (last.op = "depth" /\ DepthNotReady) => last.outcome.panic = ""

\* C6: on a Mapped depth buffer and an in-viewport pixel, the slice depth
\* hands to its decoder has exactly 4 bytes, the conversion succeeds and
\* depth returns a value.
C6_DepthReturnsValue ==
    (last.op = "depth" /\ ~DepthNotReady /\ LayoutIsViewport /\ InViewport
                       /\ last.outcome.read)
        => /\ last.outcome.end - last.outcome.start = F32_BYTES
           /\ last.outcome.panic = ""
           /\ last.outcome.value # None

\* C7: a try_lock that finds the Picking mutex held does not panic.
C7_ContentionNotFatal ==
    last.op = "try_lock" => panicked = ""

\* C8: every copy (of a texture of nonzero size) that copy_to_buffer
\* enqueues targets a buffer that is Unmapped when the copy is enqueued.
C8_CopyTargetsUnmapped ==
    last.op = "copy_to_buffer"
        => \A i \in DOMAIN last.commands :
               (last.commands[i].width > 0 /\ last.commands[i].height > 0)
                   => last.commands[i].state = "Unmapped"

\* C9: map_buffers asks to map only a buffer that is Unmapped, and
\* unmap_buffers unmaps only a buffer that is Mapped (buffers of a layout of
\* nonzero width and height).
C9_MapUnmapCycle ==
    /\ (last.op = "map_async" /\ LastSize.texture_size.x > 0 /\ LastSize.texture_size.y > 0)
           => last.pick_buffer = "Unmapped" /\ last.depth_buffer = "Unmapped"
    /\ (last.op = "unmap" /\ LastSize.texture_size.x > 0 /\ LastSize.texture_size.y > 0)
           => last.pick_buffer = "Mapped" /\ last.depth_buffer = "Mapped"

\* C10: when map_buffers returns, every buffer it asked to map in that run
\* is Mapped.
C10_MapBuffersReturnsMapped ==
    last.op = "map_buffers"
        => \A c \in last.requested :
               /\ resources[c] # None
               /\ Unwrap(resources[c]).pick_buffer.state = "Mapped"
               /\ Unwrap(resources[c]).depth_buffer.state = "Mapped"

\* map_buffers has returned after asking to map the buffers of every camera
C10_Witness ==
    /\ last.op = "map_buffers"
    /\ last.requested = Cameras

\* the last step was prepare_picking_targets on a camera that had resources
PreparedExisting ==
    /\ last.op = "prepare_picking_targets"
    /\ last.before # None

\* the layout and the buffer size prepare_picking_targets needs for a target
NeededLayout(target_size) == PickingBufferSize_new(target_size.x, target_size.y)

\* the resources the last prepare_picking_targets found match what it needs
ExistingMatches ==
    /\ PreparedExisting
    /\ Unwrap(last.before).size.texture_size = last.target_size
    /\ Unwrap(last.before).pick_buffer.size
           = total_needed_bytes(NeededLayout(last.target_size))
    /\ Unwrap(last.before).depth_buffer.size
           = total_needed_bytes(NeededLayout(last.target_size))

\* the map states in which a buffer is in flight
InFlight == {"MapRequested", "Mapped"}

\* C11: when unmap_buffers has run and until the next frame's copies are
\* recorded, no buffer is still mapped (or asked to be mapped), whatever the
\* camera's physical target size became between map_buffers and unmap_buffers.
C11_UnmappedBeforeNextCopy ==
    stage \in {"extract", "prepare", "copy"}
        => \A c \in Cameras :
               resources[c] # None
                   => /\ Unwrap(resources[c]).pick_buffer.state \notin InFlight
                      /\ Unwrap(resources[c]).depth_buffer.state \notin InFlight

\* C12: prepare_picking_targets does not replace a buffer that is
\* MapRequested or Mapped: the buffers it found in flight are still the
\* camera's buffers when it returns.
C12_NoReplaceInFlight ==
    PreparedExisting
        => /\ Unwrap(last.before).pick_buffer.state \in InFlight
                  => Unwrap(resources[last.camera]).pick_buffer
                         = Unwrap(last.before).pick_buffer
           /\ Unwrap(last.before).depth_buffer.state \in InFlight
                  => Unwrap(resources[last.camera]).depth_buffer
                         = Unwrap(last.before).depth_buffer

\* C13: prepare_picking_targets on a camera whose resources match the needed
\* layout (same target size, both buffers of the needed size) leaves the two
\* buffers and the stored size as they were: no buffer is made.
C13_PrepareIdempotent ==
    ExistingMatches => resources[last.camera] = last.before

\* prepare_picking_targets ran on a camera whose resources matched
C13_Witness ==
    /\ ExistingMatches
    /\ Unwrap(last.before).pick_buffer.epoch = 1

\* C14: prepare_picking_targets on a camera whose stored texture size differs
\* from the target size replaces both buffers with new, unmapped ones of the
\* size the new target needs and stores the new layout; and the buffer a
\* query slices is the camera's present buffer, of the size of the present
\* layout.
C14_ResizeReplacesBuffers ==
    /\ (PreparedExisting /\ Unwrap(last.before).size.texture_size # last.target_size)
           => LET old == Unwrap(last.before)
                  new == Unwrap(resources[last.camera])
                  needed == total_needed_bytes(NeededLayout(last.target_size))
              IN  /\ new.pick_buffer.epoch # old.pick_buffer.epoch
                  /\ new.depth_buffer.epoch # old.depth_buffer.epoch
                  /\ new.pick_buffer.size = needed
                  /\ new.depth_buffer.size = needed
                  /\ new.pick_buffer.state = "Unmapped"
                  /\ new.depth_buffer.state = "Unmapped"
                  /\ new.size.texture_size = last.target_size
                  /\ new.size = NeededLayout(last.target_size)
    /\ (Queried /\ last.buffer # None)
           => /\ Unwrap(last.buffer) \in {Unwrap(resources[last.camera]).pick_buffer,
                                          Unwrap(resources[last.camera]).depth_buffer}
              /\ Unwrap(last.buffer).size = total_needed_bytes(LastSize)

\* prepare_picking_targets ran on a camera whose target had changed its size
C14_Witness ==
    /\ PreparedExisting
    /\ Unwrap(last.before).size.texture_size # last.target_size
    /\ Unwrap(last.before).pick_buffer.size
           # total_needed_bytes(NeededLayout(last.target_size))

LayoutInputs ==
    {UVec2(w, h) : w \in 1..MaxLayoutWidth, h \in 1..MaxLayoutHeight}
        \cup {UVec2(301, 200)}

\* the lower 16-bit halves of the indices the codec is run on
IndexLows == {0, 1, 5, 6, 255, 256, 65535}

\* the entity indices a fragment encodes
EntityIndices == {U32(hi, lo) : hi \in 0..MaxIdHi, lo \in IndexLows}

\* the virtual entity indices get_entity ends on
VirtualIndices ==
    {U32(hi, lo) : hi \in (0..MaxIdHi) \cup {65535}, lo \in IndexLows}

PureInit ==
    /\ picking = [c \in Cameras |-> Picking_default(c)]
    /\ render_picking = [c \in Cameras |-> None]
    /\ target = [c \in Cameras |-> 1]
    /\ msaa = 1
    /\ target_info = [t \in Targets |-> None]
    /\ extracted = [c \in Cameras |-> None]
    /\ resources = [a \in Allocations |-> None]
    /\ mutex = [a \in Allocations |-> "unlocked"]
    /\ picking_textures = [c \in Cameras |-> None]
    /\ stage = "extract"
    /\ todo = {}
    /\ requested = {}
    /\ query = None
    /\ last = NoCall
    /\ panicked = ""

\* PickingBufferSize::new(width, height) and total_needed_bytes of it
LayoutNew(width, height) ==
    /\ last' = [op |-> "PickingBufferSize::new", width |-> width, height |-> height,
                size |-> PickingBufferSize_new(width, height),
                total |-> total_needed_bytes(PickingBufferSize_new(width, height))]
    /\ UNCHANGED << picking, render_picking, target, msaa,
                    target_info, extracted, resources, mutex, picking_textures, stage,
                    todo, requested, query, panicked >>

\* a fragment of object (an entity index, or None for the background) is
\* drawn into the Rgba16Float texture and the pixel is decoded as get_entity
\* decodes it
CodecRoundTrip(object, rounding) ==
    /\ LET virtual_entity_index ==
               IF object = None THEN U32(0, 0) ELSE U32Succ(Unwrap(object))
           channels == EncodeChannels(virtual_entity_index)
           pixel == StoreChannels(channels, rounding)
       IN  last' = [op |-> "codec", object |-> object, rounding |-> rounding,
                    channels |-> channels,
                    stored |-> [i \in 1..3 |-> f16_to_u16(pixel[i])],
                    entity |-> entity_from_virtual_index(make_virtual_entity_index(pixel))]
    /\ UNCHANGED << picking, render_picking, target, msaa,
                    target_info, extracted, resources, mutex, picking_textures, stage,
                    todo, requested, query, panicked >>

\* the end of get_entity on a virtual entity index
DecodeIndex(virtual_entity_index) ==
    /\ last' = [op |-> "entity_from_virtual_index",
                virtual_entity_index |-> virtual_entity_index,
                entity |-> entity_from_virtual_index(virtual_entity_index)]
    /\ UNCHANGED << picking, render_picking, target, msaa,
                    target_info, extracted, resources, mutex, picking_textures, stage,
                    todo, requested, query, panicked >>

\* channel values at the ends of the 8 bits and the 12 bits of the split
LowChannels == {0, 255}
WideChannels == {0, 1, 256, 4095}
ChannelTriples ==
    {<< lo, mid, hi >> : lo \in LowChannels, mid \in WideChannels, hi \in WideChannels}

\* get_entity assembles the virtual entity index of two pixels
DecodePair(first, second) ==
    /\ last' = [op |-> "decode_pair", first |-> first, second |-> second,
                first_index |->
                    virtual_entity_index_from_channels(first[1], first[2], first[3]),
                second_index |->
                    virtual_entity_index_from_channels(second[1], second[2], second[3])]
    /\ UNCHANGED << picking, render_picking, target, msaa,
                    target_info, extracted, resources, mutex,
                    picking_textures, stage, todo, requested, query, panicked >>

PureNext ==
    \/ \E first \in ChannelTriples, second \in ChannelTriples : DecodePair(first, second)
    \/ \E size \in LayoutInputs : LayoutNew(size.x, size.y)
    \/ \E object \in {None} \cup {Some(id) : id \in EntityIndices},
          rounding \in Roundings : CodecRoundTrip(object, rounding)
    \/ \E virtual_entity_index \in VirtualIndices : DecodeIndex(virtual_entity_index)

PureSpec == PureInit /\ [][PureNext]_vars

\* the last step computed a layout
LayoutComputed == last.op = "PickingBufferSize::new"

\* C15: for width, height > 0 the padded row is at least width *
\* bytes_per_pixel and a multiple of the alignment, and total_needed_bytes is
\* height * padded_bytes_per_row, at least height * width * bytes_per_pixel.
C15_LayoutCoversTexture ==
    LayoutComputed
        => /\ last.size.padded_bytes_per_row
                  >= last.width * PICKING_TEXTURE_FORMAT_block_size
           /\ last.size.padded_bytes_per_row % COPY_BYTES_PER_ROW_ALIGNMENT = 0
           /\ last.total = last.height * last.size.padded_bytes_per_row
           /\ last.total
                  >= last.height * last.width * PICKING_TEXTURE_FORMAT_block_size

\* a layout was computed for a row that needs padding
C15_Witness ==
    /\ LayoutComputed
    /\ last.width = 33
    /\ last.height = 3
    /\ last.size.padded_bytes_per_row = 512

\* C16: padded_bytes_per_row is the least multiple of the alignment that is
\* at least width * bytes_per_pixel (the padding is less than the alignment,
\* 0 for an aligned row), it does not decrease with the width, and for
\* 301 x 200 it is 2560 and total_needed_bytes is 512000.
C16_LeastAlignedStride ==
    LayoutComputed
        => LET unpadded == last.width * PICKING_TEXTURE_FORMAT_block_size
               padding == last.size.padded_bytes_per_row - unpadded
           IN  /\ last.size.padded_bytes_per_row % COPY_BYTES_PER_ROW_ALIGNMENT = 0
               /\ padding >= 0
               /\ padding < COPY_BYTES_PER_ROW_ALIGNMENT
               /\ unpadded % COPY_BYTES_PER_ROW_ALIGNMENT = 0 => padding = 0
               /\ last.width > 1
                      => PickingBufferSize_new(last.width - 1, last.height).padded_bytes_per_row
                             <= last.size.padded_bytes_per_row
               /\ (last.width = 301 /\ last.height = 200)
                      => /\ last.size.padded_bytes_per_row = 2560
                         /\ last.total = 512000

\* the layout of 301 x 200 was computed
C16_Witness ==
    /\ LayoutComputed
    /\ last.width = 301
    /\ last.height = 200

\* C17: an entity index that is split, as index + 1, into the three channels
\* and stored in the texture is decoded by get_entity to that entity index,
\* and the background (the all-zero pixel) to None.
C17_CodecRoundTrip ==
    last.op = "codec" => last.entity = last.object

\* C18: virtual entity index 0 gives None, every other virtual entity index v
\* gives the entity of index v - 1; 6 gives the entity of index 5.
C18_VirtualIndexOffset ==
    last.op = "entity_from_virtual_index"
        => /\ last.virtual_entity_index = U32(0, 0) => last.entity = None
           /\ last.virtual_entity_index # U32(0, 0)
                  => /\ last.entity # None
                     /\ U32Succ(Unwrap(last.entity)) = last.virtual_entity_index
           /\ last.virtual_entity_index = U32(0, 6) => last.entity = Some(U32(0, 5))

\* virtual entity index 6 was decoded
C18_Witness ==
    /\ last.op = "entity_from_virtual_index"
    /\ last.virtual_entity_index = U32(0, 6)
    /\ last.entity # None

\* the panic messages of the logic bugs: a try_lock on a held mutex, missing
\* resources, a map request for a buffer that is already mapped
LogicBugPanics ==
    {"Should have been unlocked", "TODO: Are we ok to lock here?",
     "TODO: Can we lock here?", "called Result::unwrap() on an Err value",
     "Buffer should have been prepared", "Resources should have been prepared",
     map_callback(map_async_result([size |-> 0, state |-> "Mapped", epoch |-> 0]))}

\* C19: a map failure that the device reports ends in an outcome that tells
\* the device fault from the abort of a logic bug: not in a panic with the
\* message of one.
C19_DeviceErrorDistinct ==
    (last.op = "poll" /\ last.error = "device lost")
        => panicked \notin LogicBugPanics

(***************************************************************************)
(* One run of prepare_picking_targets over cameras that render to any of   *)
(* the targets, and the color attachment the picking pass takes from the   *)
(* PickingTextures of a camera.                                            *)
(***************************************************************************)
TexturesInit ==
    /\ picking = [c \in Cameras |-> Picking_default(c)]
    /\ render_picking = [c \in Cameras |-> None]
    /\ target \in [Cameras -> Targets]
    /\ msaa \in MsaaSamples
    /\ target_info \in [Targets -> TargetSizes]
    /\ \A t \in Targets \ UsedTargets : target_info[t] = None
    /\ extracted = [c \in Cameras |-> None]
    /\ resources = [a \in Allocations |-> None]
    /\ mutex = [a \in Allocations |-> "unlocked"]
    /\ picking_textures = [c \in Cameras |-> None]
    /\ stage = "extract"
    /\ todo = {}
    /\ requested = {}
    /\ query = None
    /\ last = NoCall
    /\ panicked = ""

\* the picking pass of camera c takes its color attachment
ColorAttachment(c) ==
    /\ panicked = ""
    /\ picking_textures[c] # None
    /\ last' = [op |-> "get_color_attachment", camera |-> c,
                attachment |-> get_color_attachment(Unwrap(picking_textures[c]))]
    /\ UNCHANGED << picking, render_picking, target, msaa,
                    target_info, extracted, resources, mutex,
                    picking_textures, stage, todo, requested, query, panicked >>

TexturesNext ==
    \/ Extract
    \/ PrepareLock
    \/ PrepareBody
    \/ \E c \in Cameras : ColorAttachment(c)

TexturesSpec == TexturesInit /\ [][TexturesNext]_vars

\* C21: in a run of prepare_picking_targets the cameras of one target are
\* given the same PickingTextures, which are taken from the texture cache
\* once (at the first camera of the target), and the textures of a camera
\* have the size of that camera's target.
C21_TexturesSharedPerTarget ==
    /\ \A c, d \in Cameras :
           (picking_textures[c] # None /\ picking_textures[d] # None
                /\ camera_target(c) = camera_target(d))
               => picking_textures[c] = picking_textures[d]
    /\ \A c \in Cameras :
           picking_textures[c] # None
               => /\ Some(Unwrap(picking_textures[c]).main.size) = extracted[c]
                  /\ camera_target(Unwrap(picking_textures[c]).main.id) = camera_target(c)
    /\ last.op = "prepare_picking_targets"
           => (last.inserted
                   <=> \A d \in Cameras \ {last.camera} :
                           camera_target(d) = camera_target(last.camera)
                               => picking_textures[d] = None)

\* the second camera of a target was given the textures made for the first
C21_Witness ==
    /\ last.op = "prepare_picking_targets"
    /\ ~last.inserted
    /\ \A c \in Cameras : picking_textures[c] # None

\* C26: the sampled texture exists iff Msaa::samples > 1; the main texture
\* has sample count 1 and usage COPY_SRC; get_color_attachment renders into
\* the sampled texture and resolves to main when the sampled texture exists,
\* and renders into main without a resolve target otherwise.
C26_SampledIffMsaa ==
    /\ \A c \in Cameras :
           picking_textures[c] # None
               => LET textures == Unwrap(picking_textures[c])
                  IN  /\ textures.sampled # None <=> msaa > 1
                      /\ textures.main.sample_count = 1
                      /\ "COPY_SRC" \in textures.main.usage
                      /\ textures.sampled # None
                             => Unwrap(textures.sampled).sample_count = msaa
    /\ last.op = "get_color_attachment"
           => LET textures == Unwrap(picking_textures[last.camera])
              IN  IF msaa > 1
                  THEN /\ last.attachment.view.sample_count = msaa
                       /\ last.attachment.view = Unwrap(textures.sampled)
                       /\ last.attachment.resolve_target = Some(textures.main)
                  ELSE /\ last.attachment.view = textures.main
                       /\ last.attachment.resolve_target = None

\* the color attachment of a multisampled picking pass was taken
C26_Witness ==
    /\ last.op = "get_color_attachment"
    /\ msaa > 1
    /\ last.attachment.resolve_target # None

\* the last step was copy_to_buffer past its try_lock
Copied == last.op = "copy_to_buffer"

C29_CopyFitsBuffer ==
    Copied
        => \A i \in DOMAIN last.commands :
               LET command == last.commands[i]
                   last_byte == (command.height - 1) * command.bytes_per_row
                                    + command.width * PICKING_TEXTURE_FORMAT_block_size
               IN  /\ last_byte <= command.buffer_size
                   /\ last_byte <= Unwrap(resources[last.camera]).pick_buffer.size
                   /\ last_byte <= Unwrap(resources[last.camera]).depth_buffer.size
                   /\ picking_textures[last.camera] # None
                   /\ UVec2(command.width, command.height)
                          = Unwrap(picking_textures[last.camera]).main.size

\* a copy of two rows was recorded
C29_Witness ==
    /\ Copied
    /\ Len(last.commands) > 0
    /\ last.commands[1].height = 2
    /\ last.commands[1].buffer_size = 2 * COPY_BYTES_PER_ROW_ALIGNMENT

\* C23 as stated: the shifts 0, 8 and 20 do not fit the 8/12/12 split: two
\* distinct channel triples (lo < 2^8, mid < 2^12, hi < 2^12) are assembled
\* to the same value, or some value is assembled from no such triple.
C23_ShiftsAmbiguous ==
    last.op = "decode_pair"
        => \/ \E t1 \in ChannelTriples, t2 \in ChannelTriples :
                  /\ t1 # t2
                  /\ virtual_entity_index_from_channels(t1[1], t1[2], t1[3])
                         = virtual_entity_index_from_channels(t2[1], t2[2], t2[3])
           \/ \E v \in VirtualIndices :
                  \A t \in ChannelTriples \cup {EncodeChannels(v)} :
                      virtual_entity_index_from_channels(t[1], t[2], t[3]) # v

\* C23 as amended: the shifts 0, 8 and 20 fit the 8/12/12 split: distinct
\* channel triples are assembled to distinct values, and a value is
\* assembled from its own low 8, middle 12 and upper 12 bits.
C23_ShiftsConsistent ==
    last.op = "decode_pair"
        => /\ last.first # last.second => last.first_index # last.second_index
           /\ EncodeChannels(last.first_index) = last.first
           /\ EncodeChannels(last.second_index) = last.second

\* two triples that differ at the boundary of the middle and the upper
\* channel were assembled
C23_Witness ==
    /\ last.op = "decode_pair"
    /\ last.first = << 255, 4095, 0 >>
    /\ last.second = << 0, 0, 1 >>
    /\ last.first_index = U32(15, 65535)
    /\ last.second_index = U32(16, 0)

\* C24: every channel value of the 8/12/12 split is held exactly by a 16-bit
\* float: the texture stores the channels as the fragment wrote them.
C24_ChannelsStoredExactly ==
    last.op = "codec" => last.stored = last.channels

C27_FlipHeightIsLayoutHeight ==
    (Queried /\ last.outcome.read /\ stage = "update" /\ ~SkipsCamera(last.camera))
        => Unwrap(physical_target_size(last.camera)).y = LastSize.texture_size.y

\* C28: whenever a camera has resources, pick_buffer and depth_buffer have
\* the size total_needed_bytes of the stored layout, and after
\* prepare_picking_targets the stored layout has the target size that
\* prepare was given.
C28_BuffersMatchLayout ==
    /\ \A c \in Cameras :
           resources[c] # None
               => /\ Unwrap(resources[c]).pick_buffer.size
                         = total_needed_bytes(Unwrap(resources[c]).size)
                  /\ Unwrap(resources[c]).depth_buffer.size
                         = total_needed_bytes(Unwrap(resources[c]).size)
    /\ last.op = "prepare_picking_targets"
           => /\ resources[last.camera] # None
              /\ LastSize.texture_size = last.target_size

\* prepare_picking_targets replaced the resources of a smaller layout by
\* those of a layout of two rows
C28_Witness ==
    /\ PreparedExisting
    /\ Unwrap(last.before).size.texture_size.y = 1
    /\ last.target_size.y = 2
    /\ Unwrap(resources[last.camera]).pick_buffer.size = 2 * COPY_BYTES_PER_ROW_ALIGNMENT

\* C30: while a get_entity or depth call holds the mutex of its camera, no
\* step unmaps or replaces a buffer of that camera: unmap_buffers and
\* prepare_picking_targets act only under the same mutex.
C30_NoUnmapWhileReading ==
    [][(query # None /\ resources[Unwrap(query)] # None)
           => LET before == Unwrap(resources[Unwrap(query)])
                  after == Unwrap(resources'[Unwrap(query)])
              IN  /\ resources'[Unwrap(query)] # None
                  /\ after.size = before.size
                  /\ after.pick_buffer.epoch = before.pick_buffer.epoch
                  /\ after.depth_buffer.epoch = before.depth_buffer.epoch
                  /\ before.pick_buffer.state = "Mapped"
                         => after.pick_buffer.state = "Mapped"
                  /\ before.depth_buffer.state = "Mapped"
                         => after.depth_buffer.state = "Mapped"]_vars

\* a query holds the mutex of a camera with mapped buffers that
\* unmap_buffers is about to visit
C30_Witness ==
    /\ query # None
    /\ stage = "unmap"
    /\ Unwrap(query) \in todo
    /\ ~SkipsCamera(Unwrap(query))
    /\ resources[Unwrap(query)] # None
    /\ Unwrap(resources[Unwrap(query)]).pick_buffer.state = "Mapped"

\* the resources a query on camera c's own Picking is handed by its try_lock
SeenByQuery(c) == resources[picking[c]]

\* C31: the Picking extracted into the render world points to the same
\* mutex as the camera's own Picking: a default Picking holds no resources,
\* the resources a query sees become Some only in a step of
\* prepare_picking_targets on the camera's extracted copy, what that step
\* makes of the resources the original held is what a query on the original
\* then sees, and get_entity and depth slice the buffers of those resources.
C31_ExtractedAliasesOriginal ==
    /\ \A c \in Cameras : SeenByQuery(c) = None
    /\ [][/\ \A c \in Cameras :
                 render_picking'[c] # None
                     => Unwrap(render_picking'[c]) = picking'[c]
          /\ \A c \in Cameras :
                 (resources[picking[c]] = None /\ resources'[picking'[c]] # None)
                     => /\ last'.op = "prepare_picking_targets"
                        /\ last'.camera = c
          /\ last'.op = "prepare_picking_targets"
                 => /\ last'.before = resources[picking[last'.camera]]
                    /\ resources'[picking'[last'.camera]]
                           = prepare_resources(resources[picking[last'.camera]],
                                               last'.target_size)
                    /\ resources'[picking'[last'.camera]] # None
          /\ last'.op \in QueryKinds
                 => last'.buffer
                        = QueryBuffer(last'.op, resources'[picking'[last'.camera]])]_vars

\* prepare_picking_targets replaced, through the extracted copy, the
\* resources the camera's own Picking held, and a query on the original
\* would be handed the new ones
C31_Witness ==
    /\ last.op = "prepare_picking_targets"
    /\ render_picking[last.camera] = Some(picking[last.camera])
    /\ last.before # None
    /\ SeenByQuery(last.camera) # None
    /\ SeenByQuery(last.camera) # last.before

====
